---- MODULE Spec2Model ----
(***************************************************************************)
(* Model of examples/marine/calvingmip/postprocess_exp1.py: the script      *)
(* that turns a PISM EXP1 result into the CalvingMIP exchange file.         *)
(*                                                                          *)
(* The script is one straight-line batch run.  The model follows it         *)
(* position by position (pc); an uncaught Python exception ends the run in  *)
(* pc = "failed" with the exception recorded in err.                        *)
(*                                                                          *)
(* Numbers.  Floating point coordinates are fixed-point numbers with        *)
(* denominator Q (a point coordinate c stands for c/Q grid cells).  A       *)
(* value sampled along a transect is kept as its numerator over Q*Q, so     *)
(* that the bilinear weights are exact: Fixed(v) stands for the value v.    *)
(* np.nan is the distinguished value NaN.                                   *)
(*                                                                          *)
(* Arrays.  A 2-D numpy array of shape (Mx, My) is the record               *)
(*   [shape, base, rows, cols, over]                                        *)
(* and its cell (i, j) holds over[<<i,j>>] if that cell was assigned,       *)
(* otherwise cols[j] if column j was assigned, otherwise rows[i] if row i   *)
(* was assigned, otherwise base.  Indices are 0-based as in the script.     *)
(*                                                                          *)
(* postprocess_helper (ph) is not among the sources at hand: get_troughs,   *)
(* interpolate_along_transect and nearest_along_transect follow the         *)
(* interface the specification gives for them.  The dictionary `profiles`   *)
(* of lines 97 and 136-139 repeats xav, yav, sav and is never read; it has  *)
(* no variable here.                                                        *)
(*                                                                          *)
(* The last part models src/pythonbindings/Config.py: the dispatch of       *)
(* Config.get, Config.set and Config.set_from_dict over the typed           *)
(* accessors of the binding.  It is a program of its own, with its own      *)
(* variables and its own specification SpecConfig; the script leaves the    *)
(* variables of Config alone and Config leaves the script's alone.          *)
(***************************************************************************)
EXTENDS Integers, Sequences, FiniteSets, TLC

VARIABLES
    ds,         \* the input dataset extra_exp1.nc: present names, shape, data
    pc,         \* position of the run in the script
    err,        \* the uncaught exception that ended the run, or "none"
    exp1,       \* exp1_x, exp1_y, exp1_xvm, exp1_yvm, exp1_thk, exp1_mask, exp1_crate, exp1_topg
    Mx, My,     \* np.shape(exp1_mask)
    Mp,         \* the centre index of line 61
    transects,  \* [points_A, ..., points_H]
    trans,      \* ph.get_troughs(...): per transect the sequence of points
    l,          \* index of the transect the current loop is at
    exp1_xm, exp1_ym,               \* the coordinate meshes
    xav, yav, sav, Hav, mav, uav, vav,  \* the [8, 300] sample buffers
    calls,      \* the (p, i, j, di, dj) handed to the samplers for transect l-1
    file,       \* the output file CalvingMIP_EXP1_PISM_PIK.nc
    client,     \* Config.py: position of the caller of the Config object
    options,    \* Config.py: the value each key of the Config object was set to
    previous,   \* Config.py: options as they were when the last call began
    request,    \* Config.py: the last call and its arguments
    raises,     \* Config.py: per set/get of the last call, the accessors that raise
    invoked,    \* Config.py: the calls the last call made, in order
    outcome     \* Config.py: how the last call ended

svars == <<ds, pc, err, exp1, Mx, My, Mp, transects, trans, l, exp1_xm, exp1_ym,
           xav, yav, sav, Hav, mav, uav, vav, calls, file>>
cvars == <<client, options, previous, request, raises, invoked, outcome>>
vars == <<svars, cvars>>

-----------------------------------------------------------------------------
(* Constants of the script *)

secperyear == 365 * 24 * 3600
resolution == 5
dkm == 5
BufCap == 300
NaN == -2000000000

(* Bounds of the model *)
Q == 4          \* denominator of the fixed-point coordinates
MaxDim == 7     \* the small grids have 1..MaxDim rows and columns
LenScale == 8   \* a transect's length is computed in units of 1/(Q*LenScale)

Fixed(v) == v * Q * Q
Min(a, b) == IF a <= b THEN a ELSE b

PrimaryNames == <<"xvelmean", "yvelmean", "lithk">>
FallbackNames == <<"u_ssa", "v_ssa", "thk">>
Range(s) == {s[n] : n \in DOMAIN s}
CandidateNames == Range(PrimaryNames) \cup Range(FallbackNames)
point_names == <<"A", "B", "C", "D", "E", "F", "G", "H">>
NTransects == Len(point_names)

-----------------------------------------------------------------------------
(* 2-D arrays *)

Empty == [n \in {} |-> 0]

Zeros(mx, my) ==
    [shape |-> <<mx, my>>, base |-> 0, rows |-> Empty, cols |-> Empty, over |-> Empty]

Full(mx, my, v, holes) ==
    [shape |-> <<mx, my>>, base |-> v, rows |-> Empty, cols |-> Empty, over |-> holes]

At(a, i, j) ==
    IF <<i, j>> \in DOMAIN a.over THEN a.over[<<i, j>>]
    ELSE IF j \in DOMAIN a.cols THEN a.cols[j]
    ELSE IF i \in DOMAIN a.rows THEN a.rows[i]
    ELSE a.base

(* the values an array holds somewhere *)
ValuesOf(a) ==
    {At(a, i, j) : i \in 0..(a.shape[1] - 1), j \in 0..(a.shape[2] - 1)}

(* numpy indexing of an axis of length n: -n..n-1 is valid, negatives wrap *)
InRange(idx, n) == -n <= idx /\ idx < n
Wrap(idx, n) == IF idx < 0 THEN idx + n ELSE idx
Get(a, i, j) == At(a, Wrap(i, a.shape[1]), Wrap(j, a.shape[2]))

TimesSecperyear(v) == v * secperyear

(* a faulty variant of MaskRemap: the mask is kept as stored *)
MaskAsStored(v) == v

(* line 39: datnc.variables["mask"][tex,:] - 1 *)
MaskRemap(v) == v - 1

(* a faulty variant of ZeroToNaN: a[a <= 0.0] = np.nan *)
NonPositiveToNaN(v) == IF v <= 0 THEN NaN ELSE v

(* lines 169-171: a[a == 0.0] = np.nan, cell by cell *)
ZeroToNaN(v) == IF v = 0 THEN NaN ELSE v

(* the elementwise operations of the script *)
Apply(op, v) ==
    CASE op = "*secperyear" -> TimesSecperyear(v)
      [] op = "-1" -> MaskRemap(v)
      [] op = "0->nan" -> ZeroToNaN(v)

(* an elementwise operation on every cell of a *)
MapArr(op, a) ==
    [shape |-> a.shape,
     base |-> Apply(op, a.base),
     rows |-> [i \in DOMAIN a.rows |-> Apply(op, a.rows[i])],
     cols |-> [j \in DOMAIN a.cols |-> Apply(op, a.cols[j])],
     over |-> [c \in DOMAIN a.over |-> Apply(op, a.over[c])]]

-----------------------------------------------------------------------------
(* The input datasets the model runs the script on *)

Centre(mx, my) == <<(mx - 1) \div 2, (my - 1) \div 2>>
Hole(mx, my, hole, v) == IF hole THEN (Centre(mx, my) :> v) ELSE Empty

MaskData(mx, my, pat) ==
    IF pat = 1
    THEN Full(mx, my, 2, (Centre(mx, my) :> 3) @@ (<<0, 0>> :> 4))
    ELSE Full(mx, my, 1, (Centre(mx, my) :> 3))

Dataset(names, mx, my, hole, pat) ==
    [names |-> names,
     shape |-> <<mx, my>>,
     x |-> [i \in 0..(mx - 1) |-> i - (mx - 1) \div 2],
     y |-> [j \in 0..(my - 1) |-> 2 * (j - (my - 1) \div 2)],
     xvelmean |-> Full(mx, my, 1, Hole(mx, my, hole, 0)),
     yvelmean |-> Full(mx, my, -1, Hole(mx, my, hole, 0)),
     lithk |-> Full(mx, my, 100, Hole(mx, my, hole, 0)),
     u_ssa |-> Full(mx, my, 2, Hole(mx, my, hole, 0)),
     v_ssa |-> Full(mx, my, -2, Hole(mx, my, hole, 0)),
     thk |-> Full(mx, my, 200, Hole(mx, my, hole, 0)),
     mask |-> MaskData(mx, my, pat),
     calvingmip_calving_rate |-> Full(mx, my, 1, Hole(mx, my, TRUE, 0)),
     topg |-> Full(mx, my, -500, (<<0, 0>> :> 0)),
     ts |-> [iareafl |-> 3, iareagr |-> 4, lim |-> 5, limnsw |-> 6,
             tendlicalvf |-> -1, tendligroundf |-> 0]]

BigDim == 2 * BufCap + 5

(* the dataset d with its two axis variables exchanged: a file whose 2-D
   variables have the axis of y first and the axis of x second *)
AxesExchanged(d) == [d EXCEPT !.x = d.y, !.y = d.x]

Datasets ==
    {Dataset(names, 5, 5, TRUE, 1) : names \in SUBSET CandidateNames}
    \cup {Dataset(CandidateNames, mx, my, hole, pat) :
            mx \in 1..MaxDim, my \in 1..MaxDim, hole \in BOOLEAN, pat \in 1..2}
    \cup {AxesExchanged(Dataset(CandidateNames, mx, my, FALSE, 1)) :
            mx \in 1..MaxDim, my \in 1..MaxDim}
    \cup {Dataset(Range(PrimaryNames), BigDim, BigDim, FALSE, 1)}

Has(name) == name \in ds.names

NoFile == [exists |-> FALSE, closed |-> FALSE, dims |-> Empty, global |-> Empty,
           prof |-> Empty, annotated |-> FALSE, flag_values |-> Empty,
           flag_meanings |-> Empty]

Init ==
    /\ ds \in Datasets
    /\ pc = "read"
    /\ err = "none"
    /\ exp1 = Empty
    /\ Mx = 0 /\ My = 0 /\ Mp = 0
    /\ transects = <<>>
    /\ trans = <<>>
    /\ l = 0
    /\ exp1_xm = Empty /\ exp1_ym = Empty
    /\ xav = <<>> /\ yav = <<>> /\ sav = <<>> /\ Hav = <<>>
    /\ mav = <<>> /\ uav = <<>> /\ vav = <<>>
    /\ calls = <<>>
    /\ file = NoFile
    /\ client = "off"
    /\ options = <<>> /\ previous = <<>>
    /\ request = <<>> /\ raises = <<>> /\ invoked = <<>> /\ outcome = <<>>

Fail(e) == pc' = "failed" /\ err' = e

-----------------------------------------------------------------------------
(* lines 27-44: read the snapshot; the try/except of lines 31-38 *)

Field(name) ==
    CASE name = "xvelmean" -> ds.xvelmean
      [] name = "yvelmean" -> ds.yvelmean
      [] name = "lithk" -> ds.lithk
      [] name = "u_ssa" -> ds.u_ssa
      [] name = "v_ssa" -> ds.v_ssa
      [] name = "thk" -> ds.thk

(* what one of the two blocks assigns: the three statements run in order and
   the first absent name raises, leaving the later ones unassigned *)
Block(names, before) ==
    LET ok1 == Has(names[1])
        ok2 == ok1 /\ Has(names[2])
        ok3 == ok2 /\ Has(names[3])
    IN [raised |-> ~ok3,
        xvm |-> IF ok1 THEN <<MapArr("*secperyear", Field(names[1]))>> ELSE before.xvm,
        yvm |-> IF ok2 THEN <<MapArr("*secperyear", Field(names[2]))>> ELSE before.yvm,
        thk |-> IF ok3 THEN <<Field(names[3])>> ELSE before.thk]

Unassigned == [raised |-> FALSE, xvm |-> <<>>, yvm |-> <<>>, thk |-> <<>>]

(* a faulty variant of ResolveFields: the except block only fills in what the
   try block left out *)
ResolveFieldsPerName ==
    LET try == Block(PrimaryNames, Unassigned)
        exc == Block(FallbackNames, Unassigned)
    IN [raised |-> try.raised /\ exc.raised,
        xvm |-> IF try.xvm # <<>> THEN try.xvm ELSE exc.xvm,
        yvm |-> IF try.yvm # <<>> THEN try.yvm ELSE exc.yvm,
        thk |-> IF try.thk # <<>> THEN try.thk ELSE exc.thk]

ResolveFields ==
    LET try == Block(PrimaryNames, Unassigned)
    IN IF try.raised THEN Block(FallbackNames, try) ELSE try

ReadSnapshot ==
    /\ pc = "read"
    /\ UNCHANGED cvars
    /\ LET r == ResolveFields
       IN IF r.raised
          THEN /\ Fail("KeyError")
               /\ exp1' = [x |-> ds.x, y |-> ds.y, xvm |-> r.xvm, yvm |-> r.yvm,
                           thk |-> r.thk]
               /\ UNCHANGED <<Mx, My>>
          ELSE /\ pc' = "readts"
               /\ exp1' = [x |-> ds.x, y |-> ds.y,
                           xvm |-> r.xvm[1], yvm |-> r.yvm[1], thk |-> r.thk[1],
                           mask |-> MapArr("-1", ds.mask),
                           crate |-> MapArr("*secperyear", ds.calvingmip_calving_rate),
                           topg |-> ds.topg]
               /\ Mx' = ds.mask.shape[1]
               /\ My' = ds.mask.shape[2]
               /\ UNCHANGED err
    /\ UNCHANGED <<ds, Mp, transects, trans, l, exp1_xm, exp1_ym,
                   xav, yav, sav, Hav, mav, uav, vav, calls, file>>

-----------------------------------------------------------------------------
(* lines 46-55: read the scalar time series *)

ReadTimeSeries ==
    /\ pc = "readts"
    /\ UNCHANGED cvars
    /\ pc' = "plan"
    /\ exp1' = [ts |-> [afl |-> ds.ts.iareafl, agr |-> ds.ts.iareagr,
                        lim |-> ds.ts.lim, limnsw |-> ds.ts.limnsw,
                        tendcf |-> TimesSecperyear(ds.ts.tendlicalvf),
                        tendgf |-> TimesSecperyear(ds.ts.tendligroundf)]] @@ exp1
    /\ UNCHANGED <<ds, err, Mx, My, Mp, transects, trans, l, exp1_xm, exp1_ym,
                   xav, yav, sav, Hav, mav, uav, vav, calls, file>>

-----------------------------------------------------------------------------
(* lines 60-77: the eight transects and their points *)

(* int((Mx-1)/2.0): int() truncates, and Mx >= 1 *)
CentreIndex(mx) == (mx - 1) \div 2

Profiles(mx, my, mp) ==
    LET points_A == <<<<mp, mp>>, <<mp, my - 2>>>>
        points_B == <<<<mp, mp>>, <<mx - 2, my - 2>>>>
        points_C == <<<<mp, mp>>, <<mx - 2, mp>>>>
        points_D == <<<<mp, mp>>, <<mx - 2, 2>>>>
        points_E == <<<<mp, mp>>, <<mp, 2>>>>
        points_F == <<<<mp, mp>>, <<2, 2>>>>
        points_G == <<<<mp, mp>>, <<2, mp>>>>
        points_H == <<<<mp, mp>>, <<2, my - 2>>>>
    IN <<points_A, points_B, points_C, points_D, points_E, points_F, points_G, points_H>>

(* dp = dkm / resolution, in units of 1/Q *)
dp == (dkm * Q) \div resolution

(* the largest r with r*r <= n, for 0 <= n *)
RECURSIVE IsqrtIter(_, _, _)
IsqrtIter(n, lo, hi) ==
    IF lo >= hi THEN lo
    ELSE LET mid == (lo + hi + 1) \div 2
         IN IF mid * mid <= n THEN IsqrtIter(n, mid, hi) ELSE IsqrtIter(n, lo, mid - 1)

Isqrt(n) == IsqrtIter(n, 0, Min(n, 46340))

(* The transect point generator ph.get_troughs for one transect: the points
   at distance 0, step, 2*step, ... from start along the segment, then the end
   point itself; each coordinate is rounded down to a multiple of 1/Q. *)
TransectPoints(p, step) ==
    LET d0 == p[2][1] - p[1][1]
        d1 == p[2][2] - p[1][2]
        len == Isqrt(LenScale * LenScale * Q * Q * (d0 * d0 + d1 * d1))
        n == IF len = 0 THEN 0 ELSE (len - 1) \div (step * LenScale) + 1
        at(k) == <<p[1][1] * Q + (d0 * Q * k * step * LenScale) \div len,
                   p[1][2] * Q + (d1 * Q * k * step * LenScale) \div len>>
    IN IF len = 0 THEN <<<<p[1][1] * Q, p[1][2] * Q>>>>
       ELSE [k \in 1..n |-> at(k - 1)] \o <<<<p[2][1] * Q, p[2][2] * Q>>>>

get_troughs(ts, step) == [n \in DOMAIN ts |-> TransectPoints(ts[n], step)]

DefineProfiles ==
    /\ pc = "plan"
    /\ UNCHANGED cvars
    /\ pc' = "alloc"
    /\ Mp' = CentreIndex(Mx)
    /\ transects' = Profiles(Mx, My, Mp')
    /\ trans' = get_troughs(transects', dp)
    /\ UNCHANGED <<ds, err, exp1, Mx, My, l, exp1_xm, exp1_ym,
                   xav, yav, sav, Hav, mav, uav, vav, calls, file>>

-----------------------------------------------------------------------------
(* lines 96-114: the sample buffers and the coordinate meshes *)

Buffer(n) == [r \in 0..(n - 1) |-> [k \in 0..(BufCap - 1) |-> 0]]

(* a faulty variant of XMesh: for i in range(Mx-1) *)
XMeshShort(mx, my, x) == [Zeros(mx, my) EXCEPT !.rows = [i \in 0..(mx - 2) |-> x[i]]]

(* for i in range(Mx): exp1_xm[i,:] = exp1_x[i] *)
XMesh(mx, my, x) == [Zeros(mx, my) EXCEPT !.rows = [i \in 0..(mx - 1) |-> x[i]]]
(* for j in range(My): exp1_ym[:,j] = exp1_y[j] *)
YMesh(mx, my, y) == [Zeros(mx, my) EXCEPT !.cols = [j \in 0..(my - 1) |-> y[j]]]

Allocate ==
    /\ pc = "alloc"
    /\ UNCHANGED cvars
    /\ xav' = Buffer(Len(trans)) /\ yav' = Buffer(Len(trans))
    /\ Hav' = Buffer(Len(trans)) /\ mav' = Buffer(Len(trans))
    /\ uav' = Buffer(Len(trans)) /\ vav' = Buffer(Len(trans))
    /\ sav' = Buffer(Len(trans))
    /\ IF \A i \in 0..(Mx - 1) : i \in DOMAIN exp1.x
       THEN /\ exp1_xm' = XMesh(Mx, My, exp1.x)
            /\ IF \A j \in 0..(My - 1) : j \in DOMAIN exp1.y
               THEN /\ exp1_ym' = YMesh(Mx, My, exp1.y)
                    /\ pc' = "sample"
                    /\ UNCHANGED err
               ELSE /\ exp1_ym' = Zeros(Mx, My)
                    /\ Fail("IndexError: exp1_y")
       ELSE /\ exp1_xm' = Zeros(Mx, My)
            /\ exp1_ym' = Zeros(Mx, My)
            /\ Fail("IndexError: exp1_x")
    /\ l' = 0
    /\ UNCHANGED <<ds, exp1, Mx, My, Mp, transects, trans, calls, file>>

-----------------------------------------------------------------------------
(* lines 117-139: sample every field along every transect *)

(* lines 121-124, for the point p = [p[0], p[1]] (here <<p[1], p[2]>>) *)
Decompose(p) ==
    [p |-> p,
     i |-> p[2] \div Q,
     j |-> p[1] \div Q,
     di |-> p[1] % Q,
     dj |-> p[2] % Q]

(* the four cells a sampler reads are a[i,j], a[i+1,j], a[i,j+1], a[i+1,j+1] *)
SamplerRaises(a, c) ==
    ~ /\ InRange(c.i, a.shape[1]) /\ InRange(c.i + 1, a.shape[1])
      /\ InRange(c.j, a.shape[2]) /\ InRange(c.j + 1, a.shape[2])

(* ph.interpolate_along_transect: bilinear, the result as a numerator over Q*Q *)
interpolate_along_transect(a, c) ==
    LET v00 == Get(a, c.i, c.j)
        v10 == Get(a, c.i + 1, c.j)
        v01 == Get(a, c.i, c.j + 1)
        v11 == Get(a, c.i + 1, c.j + 1)
    IN IF NaN \in {v00, v10, v01, v11} THEN NaN
       ELSE (Q - c.di) * (Q - c.dj) * v00 + c.di * (Q - c.dj) * v10
            + (Q - c.di) * c.dj * v01 + c.di * c.dj * v11

(* ph.nearest_along_transect: the cell nearest to (i+di, j+dj), unblended *)
nearest_along_transect(a, c) ==
    Get(a, c.i + (IF 2 * c.di >= Q THEN 1 ELSE 0), c.j + (IF 2 * c.dj >= Q THEN 1 ELSE 0))

(* np.sqrt(x**2 + y**2) *)
Norm(x, y) == Isqrt(x * x + y * y)

(* the points of po, 1-based, at which the loop body raises: the sampler for its
   indices, or the store into column k-1 of a buffer of BufCap columns *)
RaisesAt(po) ==
    {k \in 1..Len(po) : SamplerRaises(exp1_ym, Decompose(po[k])) \/ k > BufCap}

First(S) == CHOOSE k \in S : \A m \in S : k <= m

(* what the loop body stores in the buffer named buf for the decomposition c *)
Sample(buf, c) ==
    LET x == interpolate_along_transect(exp1_ym, c)
        y == interpolate_along_transect(exp1_xm, c)
    IN CASE buf = "xav" -> x
         [] buf = "yav" -> y
         [] buf = "sav" -> Norm(x, y)
         [] buf = "Hav" -> interpolate_along_transect(exp1.thk, c)
         [] buf = "uav" -> interpolate_along_transect(exp1.xvm, c)
         [] buf = "vav" -> interpolate_along_transect(exp1.yvm, c)
         [] buf = "mav" -> nearest_along_transect(exp1.mask, c)

(* a buffer row after the first n points of po were stored in it *)
Row(row, po, n, buf) ==
    [k \in DOMAIN row |-> IF k < n THEN Sample(buf, Decompose(po[k + 1])) ELSE row[k]]

SampleTransect ==
    /\ pc = "sample"
    /\ UNCHANGED cvars
    /\ LET po == trans[l + 1]
           bad == RaisesAt(po)
           n == IF bad = {} THEN Len(po) ELSE First(bad) - 1
       IN /\ xav' = [xav EXCEPT ![l] = Row(@, po, n, "xav")]
          /\ yav' = [yav EXCEPT ![l] = Row(@, po, n, "yav")]
          /\ sav' = [sav EXCEPT ![l] = Row(@, po, n, "sav")]
          /\ Hav' = [Hav EXCEPT ![l] = Row(@, po, n, "Hav")]
          /\ uav' = [uav EXCEPT ![l] = Row(@, po, n, "uav")]
          /\ vav' = [vav EXCEPT ![l] = Row(@, po, n, "vav")]
          /\ mav' = [mav EXCEPT ![l] = Row(@, po, n, "mav")]
          /\ calls' = [k \in 1..Min(n + 1, Len(po)) |-> Decompose(po[k])]
          /\ IF bad = {}
             THEN /\ l' = l + 1
                  /\ pc' = IF l + 1 = Len(trans) THEN "create" ELSE "sample"
                  /\ UNCHANGED err
             ELSE /\ Fail(IF SamplerRaises(exp1_ym, Decompose(po[n + 1]))
                          THEN "IndexError: sampler" ELSE "IndexError: buffer")
                  /\ UNCHANGED l
    /\ UNCHANGED <<ds, exp1, Mx, My, Mp, transects, trans, exp1_xm, exp1_ym, file>>

-----------------------------------------------------------------------------
(* lines 143-481: the output file *)

(* lines 144-167: nc.Dataset(exp_outfile, 'w') creates the file on disk, then
   the dimensions and the global variables are declared *)
CreateFile ==
    /\ pc = "create"
    /\ UNCHANGED cvars
    /\ pc' = "normalize"
    /\ file' = [NoFile EXCEPT !.exists = TRUE]
    /\ UNCHANGED <<ds, err, exp1, Mx, My, Mp, transects, trans, l, exp1_xm, exp1_ym,
                   xav, yav, sav, Hav, mav, uav, vav, calls>>

(* lines 169-171 *)
Normalized(e) ==
    [e EXCEPT !.thk = MapArr("0->nan", @),
              !.xvm = MapArr("0->nan", @),
              !.yvm = MapArr("0->nan", @)]

Normalize ==
    /\ pc = "normalize"
    /\ UNCHANGED cvars
    /\ pc' = "defprof"
    /\ exp1' = Normalized(exp1)
    /\ UNCHANGED <<ds, err, Mx, My, Mp, transects, trans, l, exp1_xm, exp1_ym,
                   xav, yav, sav, Hav, mav, uav, vav, calls, file>>

(* lines 173-235: dimension 'Profile T' of size np.shape(trans[t])[0] *)
DeclareProfiles ==
    /\ pc = "defprof"
    /\ UNCHANGED cvars
    /\ pc' = "wglobal"
    /\ file' = [file EXCEPT !.dims = [t \in 0..(NTransects - 1) |-> Len(trans[t + 1])]]
    /\ UNCHANGED <<ds, err, exp1, Mx, My, Mp, transects, trans, l, exp1_xm, exp1_ym,
                   xav, yav, sav, Hav, mav, uav, vav, calls>>

(* lines 239-255 *)
WriteGlobals ==
    /\ pc = "wglobal"
    /\ UNCHANGED cvars
    /\ pc' = "wprofile"
    /\ l' = 0
    /\ file' = [file EXCEPT !.global =
                   [X |-> exp1.x, Y |-> exp1.y,
                    xvelmean |-> exp1.xvm, yvelmean |-> exp1.yvm, lithk |-> exp1.thk,
                    mask |-> exp1.mask, calverate |-> exp1.crate, topg |-> exp1.topg,
                    iareafl |-> exp1.ts.afl, iareagr |-> exp1.ts.agr,
                    lim |-> exp1.ts.lim, limnsw |-> exp1.ts.limnsw,
                    tendlicalvf |-> exp1.ts.tendcf, tendligroundf |-> exp1.ts.tendgf]]
    /\ UNCHANGED <<ds, err, exp1, Mx, My, Mp, transects, trans, exp1_xm, exp1_ym,
                   xav, yav, sav, Hav, mav, uav, vav, calls>>

(* a faulty variant of Cut: row[1:cut+1] *)
CutFromOne(row, cut) == [k \in 0..(Min(cut, BufCap) - 1) |-> row[k + 1]]

(* row[0:cut] *)
Cut(row, cut) == [k \in 0..(Min(cut, BufCap) - 1) |-> row[k]]
Size(a) == Cardinality(DOMAIN a)

(* lines 257-319, one transect: cutT = np.shape(trans[t])[0]; ncsT[:] = sav[t][0:cutT] ... *)
WriteProfile ==
    /\ pc = "wprofile"
    /\ UNCHANGED cvars
    /\ LET cut == Len(trans[l + 1])
       IN IF Size(Cut(sav[l], cut)) = file.dims[l]
          THEN /\ file' = [file EXCEPT !.prof = (l :>
                              [coord |-> Cut(sav[l], cut),
                               s |-> Cut(sav[l], cut),
                               lithk |-> Cut(Hav[l], cut),
                               mask |-> Cut(mav[l], cut),
                               xvelmean |-> Cut(uav[l], cut),
                               yvelmean |-> Cut(vav[l], cut)]) @@ @]
               /\ l' = l + 1
               /\ pc' = IF l + 1 = NTransects THEN "attrs" ELSE "wprofile"
               /\ UNCHANGED err
          ELSE /\ Fail("ValueError: shape mismatch")
               /\ UNCHANGED <<l, file>>
    /\ UNCHANGED <<ds, exp1, Mx, My, Mp, transects, trans, exp1_xm, exp1_ym,
                   xav, yav, sav, Hav, mav, uav, vav, calls>>

MaskVariables ==
    {"mask", "maskA", "maskB", "maskC", "maskD", "maskE", "maskF", "maskG", "maskH"}

(* flag_values = '1, 2, 3' *)
flag_values == <<1, 2, 3>>
flag_meanings == <<"1=grounded ice", "2=floating ice", "3=open ocean">>

(* lines 324-479: units, standard names, and on the mask variables the flags *)
WriteAttributes ==
    /\ pc = "attrs"
    /\ UNCHANGED cvars
    /\ pc' = "close"
    /\ file' = [file EXCEPT !.annotated = TRUE,
                            !.flag_values = [v \in MaskVariables |-> flag_values],
                            !.flag_meanings = [v \in MaskVariables |-> flag_meanings]]
    /\ UNCHANGED <<ds, err, exp1, Mx, My, Mp, transects, trans, l, exp1_xm, exp1_ym,
                   xav, yav, sav, Hav, mav, uav, vav, calls>>

(* line 481 *)
Close ==
    /\ pc = "close"
    /\ UNCHANGED cvars
    /\ pc' = "done"
    /\ file' = [file EXCEPT !.closed = TRUE]
    /\ UNCHANGED <<ds, err, exp1, Mx, My, Mp, transects, trans, l, exp1_xm, exp1_ym,
                   xav, yav, sav, Hav, mav, uav, vav, calls>>

(* A call into the netCDF writer raises (the disk is full, the file cannot be
   opened): the exception is not caught anywhere, the run ends where it is and
   whatever is on disk stays there. *)
WriterCalls == {"create", "defprof", "wglobal", "wprofile", "attrs", "close"}

WriteFailure ==
    /\ pc \in WriterCalls
    /\ UNCHANGED cvars
    /\ Fail("OutputWriteFailure")
    /\ UNCHANGED <<ds, exp1, Mx, My, Mp, transects, trans, l, exp1_xm, exp1_ym,
                   xav, yav, sav, Hav, mav, uav, vav, calls, file>>


-----------------------------------------------------------------------------
(* Properties *)

Cells == (0..(ds.shape[1] - 1)) \X (0..(ds.shape[2] - 1))
PrimaryComplete == Range(PrimaryNames) \subseteq ds.names
FallbackComplete == Range(FallbackNames) \subseteq ds.names
BeforeNormalize == pc \in {"readts", "plan", "alloc", "sample", "create", "normalize"}
Odd(n) == n % 2 = 1

(* exp1_xvm, exp1_yvm, exp1_thk hold the fields stored under the names n,
   the velocities times seconds per year *)
TakenFrom(n) ==
    \A c \in Cells :
        /\ At(exp1.xvm, c[1], c[2]) = At(Field(n[1]), c[1], c[2]) * (365 * 24 * 3600)
        /\ At(exp1.yvm, c[1], c[2]) = At(Field(n[2]), c[1], c[2]) * (365 * 24 * 3600)
        /\ At(exp1.thk, c[1], c[2]) = At(Field(n[3]), c[1], c[2])

(* C1: the velocity/thickness triple is taken as a whole from xvelmean,
   yvelmean, lithk when all three are present, otherwise as a whole from
   u_ssa, v_ssa, thk (velocities times seconds per year either way); when
   that set is incomplete too the run ends in a KeyError and no output file
   exists. *)
C1_FieldNameFallback ==
    /\ (BeforeNormalize /\ PrimaryComplete) => TakenFrom(PrimaryNames)
    /\ (BeforeNormalize /\ ~PrimaryComplete) =>
           (FallbackComplete /\ TakenFrom(FallbackNames))
    /\ (pc # "read" /\ ~PrimaryComplete /\ ~FallbackComplete) =>
           (pc = "failed" /\ err = "KeyError" /\ ~file.exists)
    /\ (PrimaryComplete \/ FallbackComplete) => err # "KeyError"

C1_Witness ==
    /\ pc = "create"
    /\ "xvelmean" \in ds.names /\ "lithk" \notin ds.names
    /\ FallbackComplete
    /\ At(exp1.xvm, 0, 0) = 2 * secperyear

C1_WitnessFatal ==
    /\ pc = "failed" /\ err = "KeyError"
    /\ "xvelmean" \in ds.names /\ "u_ssa" \in ds.names /\ "thk" \notin ds.names

(* the 5x5 grid whose thickness is 100 everywhere except 0 at the centre cell
   (2, 2), read under the primary names, sampled with dp = 1 *)
C2_Scenario ==
    /\ ds.shape = <<5, 5>>
    /\ PrimaryComplete
    /\ dp = Q
    /\ \A c \in Cells : At(ds.lithk, c[1], c[2]) = IF c = <<2, 2>> THEN 0 ELSE 100

(* C2 as claimed: the first thickness exported for transect A is the
   missing-data marker and every later one is 100. *)
C2_FirstIsMissing ==
    (C2_Scenario /\ 0 \in DOMAIN file.prof) =>
        /\ file.prof[0].lithk[0] = NaN
        /\ \A k \in DOMAIN file.prof[0].lithk : k > 0 => file.prof[0].lithk[k] = Fixed(100)

(* C2 as amended: the first thickness exported for transect A is the raw
   value 0 of the centre cell (the profile was sampled before the zero cells
   of the 2-D field were replaced, and the profile itself is never
   normalized), every later one is 100; the marker appears only at the centre
   cell of the exported 2-D field. *)
C2_FirstIsRawZero ==
    /\ (C2_Scenario /\ 0 \in DOMAIN file.prof) =>
          /\ file.prof[0].lithk[0] = Fixed(0)
          /\ Size(file.prof[0].lithk) >= 2
          /\ \A k \in DOMAIN file.prof[0].lithk :
                 k > 0 => file.prof[0].lithk[k] = Fixed(100)
    /\ (C2_Scenario /\ pc = "done") =>
          \A c \in Cells :
              At(file.global.lithk, c[1], c[2]) = IF c = <<2, 2>> THEN NaN ELSE 100

C2_Witness ==
    /\ C2_Scenario
    /\ pc = "done"
    /\ Size(file.prof[0].lithk) = 2
    /\ file.prof[0].lithk[1] = Fixed(100)

Buffers == <<xav, yav, sav, Hav, mav, uav, vav>>

(* C3: the normalization turns every cell of exp1_thk, exp1_xvm and exp1_yvm
   that is exactly zero into NaN, keeps every other cell of the three, and
   changes nothing else: not the mask, the bedrock, the calving rate, nor the
   sampled profile buffers. *)
C3_ZeroToMissing ==
    [][pc = "normalize" =>
        /\ \A c \in Cells :
              /\ At(exp1.thk, c[1], c[2]) = 0 => At(exp1'.thk, c[1], c[2]) = NaN
              /\ At(exp1.xvm, c[1], c[2]) = 0 => At(exp1'.xvm, c[1], c[2]) = NaN
              /\ At(exp1.yvm, c[1], c[2]) = 0 => At(exp1'.yvm, c[1], c[2]) = NaN
              /\ At(exp1.thk, c[1], c[2]) # 0 =>
                     At(exp1'.thk, c[1], c[2]) = At(exp1.thk, c[1], c[2])
              /\ At(exp1.xvm, c[1], c[2]) # 0 =>
                     At(exp1'.xvm, c[1], c[2]) = At(exp1.xvm, c[1], c[2])
              /\ At(exp1.yvm, c[1], c[2]) # 0 =>
                     At(exp1'.yvm, c[1], c[2]) = At(exp1.yvm, c[1], c[2])
        /\ exp1'.mask = exp1.mask
        /\ exp1'.topg = exp1.topg
        /\ exp1'.crate = exp1.crate
        /\ Buffers' = Buffers
        /\ exp1_xm' = exp1_xm /\ exp1_ym' = exp1_ym]_vars

C3_Witness ==
    /\ pc = "defprof"
    /\ At(ds.lithk, Mp, Mp) = 0 /\ At(exp1.thk, Mp, Mp) = NaN
    /\ At(exp1.xvm, Mp, Mp) = NaN /\ At(exp1.yvm, Mp, Mp) = NaN
    /\ At(exp1.thk, 0, 0) = 100
    /\ At(exp1.yvm, 0, 0) = -secperyear
    /\ At(exp1.topg, 0, 0) = 0 /\ At(exp1.crate, Mp, Mp) = 0
    /\ Hav[0][0] = 0

(* C4: a run that failed leaves no output file, complete or partial. *)
C4_NoPartialOutput == pc = "failed" => ~file.exists

(* C5: with an even Mx or My the run fails with a precondition violation
   before any point is sampled. *)
C5_EvenGridRejected ==
    ((~Odd(ds.shape[1]) \/ ~Odd(ds.shape[2])) /\ pc \notin {"read", "readts", "plan"}) =>
        (pc = "failed" /\ err = "PreconditionViolation" /\ calls = <<>>)

(* C6: on a grid with odd Mx and odd My every (i, j) handed to the samplers
   has 0 <= i <= Mx-2 and 0 <= j <= My-2. *)
C6_IndicesInSupport ==
    (Odd(ds.shape[1]) /\ Odd(ds.shape[2])) =>
        \A n \in DOMAIN calls :
            /\ 0 <= calls[n].i /\ calls[n].i <= Mx - 2
            /\ 0 <= calls[n].j /\ calls[n].j <= My - 2

(* C7: on a grid with odd Mx and odd My the eight transects all start at the
   grid centre and all their start and end indices lie in
   [0, Mx-1] x [0, My-1]. *)
C7_TransectsInGrid ==
    (Odd(ds.shape[1]) /\ Odd(ds.shape[2])) =>
        \A t \in DOMAIN transects :
            /\ transects[t][1] = <<(Mx - 1) \div 2, (My - 1) \div 2>>
            /\ \A e \in 1..2 :
                  /\ 0 <= transects[t][e][1] /\ transects[t][e][1] <= Mx - 1
                  /\ 0 <= transects[t][e][2] /\ transects[t][e][2] <= My - 1

(* C8: whatever the number of points of a transect, more than 300 included,
   the run does not stop on the buffers' capacity, and an exported profile has
   one record per generated point, record k holding the samples of point k. *)
C8_ProfilePerPoint ==
    /\ err # "IndexError: buffer"
    /\ \A t \in DOMAIN file.prof :
          /\ DOMAIN file.prof[t].lithk = 0..(Len(trans[t + 1]) - 1)
          /\ \A k \in DOMAIN file.prof[t].lithk :
                file.prof[t].mask[k] =
                    nearest_along_transect(exp1.mask, Decompose(trans[t + 1][k + 1]))

ExportedMasks ==
    ValuesOf(file.global.mask)
    \cup UNION {Range(file.prof[t].mask) : t \in DOMAIN file.prof}

(* C9 as claimed: every exported mask value is one of 0, 1, 2 and the codes
   enumerated on the mask variables are 0, 1, 2. *)
C9_CodesZeroToTwo ==
    pc = "done" =>
        /\ ExportedMasks \subseteq {0, 1, 2}
        /\ \A v \in MaskVariables : Range(file.flag_values[v]) = {0, 1, 2}

(* C9 as amended: every exported mask value, in the 2-D field and in the
   profiles, is the stored value of one grid cell minus 1; the codes
   enumerated on every mask variable are 1, 2, 3 (1 = grounded ice,
   2 = floating ice, 3 = open ocean), and the exported values are among them
   whenever the stored values are among 2, 3, 4. *)
C9_CodesOneToThree ==
    pc = "done" =>
        /\ \A c \in Cells : At(file.global.mask, c[1], c[2]) = At(ds.mask, c[1], c[2]) - 1
        /\ \A t \in DOMAIN file.prof : \A k \in DOMAIN file.prof[t].mask :
              \E c \in Cells : file.prof[t].mask[k] = At(ds.mask, c[1], c[2]) - 1
        /\ \A v \in MaskVariables :
              /\ file.flag_values[v] = <<1, 2, 3>>
              /\ file.flag_meanings[v] =
                     <<"1=grounded ice", "2=floating ice", "3=open ocean">>
        /\ ValuesOf(ds.mask) \subseteq {2, 3, 4} => ExportedMasks \subseteq {1, 2, 3}

C9_Witness ==
    /\ pc = "done"
    /\ ValuesOf(ds.mask) = {2, 3, 4}
    /\ file.prof[0].mask[0] = 2
    /\ file.prof[0].mask[1] = 1
    /\ At(file.global.mask, 0, 0) = 3

(* C10: for every point the decomposition is coordinate-consistent:
   (i + di, j + dj) is (p0, p1) or (p1, p0), with di and dj in [0, 1). *)
C10_DecompositionConsistent ==
    \A n \in DOMAIN calls :
        LET c == calls[n]
        IN /\ c.di \in 0..(Q - 1) /\ c.dj \in 0..(Q - 1)
           /\ \/ <<c.i * Q + c.di, c.j * Q + c.dj>> = c.p
              \/ <<c.j * Q + c.dj, c.i * Q + c.di>> = c.p

(* the axis arrays have the lengths of the grid: len(X) = Mx, len(Y) = My *)
AxesMatch == DOMAIN ds.x = 0..(ds.shape[1] - 1) /\ DOMAIN ds.y = 0..(ds.shape[2] - 1)
MeshesBuilt == pc \notin {"read", "readts", "plan", "alloc"} /\ err # "KeyError"

(* C11: for axis arrays X of length Mx and Y of length My, square or not, the
   mesh builder ends without an index error, both meshes have shape (Mx, My),
   Xmesh[i, j] = X[i] and Ymesh[i, j] = Y[j] for every cell, and X and Y are as
   they were read. *)
C11_MeshBroadcast ==
    (AxesMatch /\ MeshesBuilt) =>
        /\ err \notin {"IndexError: exp1_x", "IndexError: exp1_y"}
        /\ exp1_xm.shape = <<Mx, My>> /\ exp1_ym.shape = <<Mx, My>>
        /\ <<Mx, My>> = ds.shape
        /\ \A i \in 0..(Mx - 1) : \A j \in 0..(My - 1) :
              /\ At(exp1_xm, i, j) = ds.x[i]
              /\ At(exp1_ym, i, j) = ds.y[j]
        /\ exp1.x = ds.x /\ exp1.y = ds.y

C11_Witness ==
    /\ pc = "sample"
    /\ AxesMatch
    /\ Mx = 3 /\ My = 5
    /\ At(exp1_xm, 2, 0) = 1 /\ At(exp1_xm, 2, 4) = 1 /\ At(exp1_xm, 0, 4) = -1
    /\ At(exp1_ym, 0, 4) = 4 /\ At(exp1_ym, 2, 4) = 4 /\ At(exp1_ym, 2, 0) = -4

-----------------------------------------------------------------------------
(* src/pythonbindings/Config.py *)

(* Bounds of the model of Config *)
Keys == {"a", "b"}      \* the keys the caller uses
NVals == 2              \* the values the caller sets are 1..NVals
Vals == 1..NVals
NotSet == 0             \* options[key] of a key no setter has set

(* methods = [self.get_flag, self.get_number, self.get_numbers, self.get_string] *)
get_methods == <<"get_flag", "get_number", "get_numbers", "get_string">>

(* a faulty variant of set_methods: the number setter is tried first *)
set_methods_number_first == <<"set_number", "set_flag", "set_numbers", "set_string">>

(* methods = [self.set_flag, self.set_number, self.set_numbers, self.set_string] *)
set_methods == <<"set_flag", "set_number", "set_numbers", "set_string">>

(* The accessors of the binding are not among the sources at hand.  Whether a
   call of one raises is the binding's choice: R is the set of the accessors
   that raise in one get or set.  A setter that returns has set the key to the
   value; an accessor that raises has changed nothing. *)
Accessors(methods, generic) == Range(methods) \cup {generic}
AccessorRaises(method, R) == method \in R
AccessorSets(opts, key, val) == [opts EXCEPT ![key] = val]

(* for method in methods: try: return method(...) except: pass
   return self._get(...) / self._set(...)
   n is the position of the loop in methods, tried the accessors called so far *)
RECURSIVE Dispatch(_, _, _, _, _)
Dispatch(methods, generic, R, n, tried) ==
    IF n > Len(methods)
    THEN [invoked |-> Append(tried, generic), by |-> generic,
          raised |-> AccessorRaises(generic, R)]
    ELSE IF AccessorRaises(methods[n], R)
         THEN Dispatch(methods, generic, R, n + 1, Append(tried, methods[n]))
         ELSE [invoked |-> Append(tried, methods[n]), by |-> methods[n],
               raised |-> FALSE]

(* def get(self, key) *)
get(key, R) ==
    LET r == Dispatch(get_methods, "_get", R, 1, <<>>)
    IN  [invoked |-> <<<<"get", key>>>>
                     \o [n \in 1..Len(r.invoked) |-> <<r.invoked[n], key>>],
         outcome |-> [raised |-> r.raised, by |-> r.by]]

(* def set(self, key, val) *)
set(key, val, R, opts) ==
    LET r == Dispatch(set_methods, "_set", R, 1, <<>>)
    IN  [invoked |-> <<<<"set", key, val>>>>
                     \o [n \in 1..Len(r.invoked) |-> <<r.invoked[n], key, val>>],
         outcome |-> [raised |-> r.raised, by |-> r.by],
         options |-> IF r.raised THEN opts ELSE AccessorSets(opts, key, val)]

(* def set_from_dict(self, d): for key, val in d.items(): self.set(key, val)
   d is the sequence of the items of the dictionary in iteration order, n the
   position of the loop, Rs[n] the accessors that raise for item n *)
RECURSIVE set_from_dict(_, _, _, _, _)
set_from_dict(d, Rs, n, opts, done) ==
    IF n > Len(d)
    THEN [invoked |-> done, outcome |-> [raised |-> FALSE, by |-> "set_from_dict"],
          options |-> opts]
    ELSE LET s == set(d[n][1], d[n][2], Rs[n], opts)
         IN  IF s.outcome.raised
             THEN [invoked |-> done \o s.invoked, outcome |-> s.outcome,
                   options |-> s.options]
             ELSE set_from_dict(d, Rs, n + 1, s.options, done \o s.invoked)

(* the dictionaries of the caller: the keys of a dictionary are distinct *)
Dicts ==
    {d \in UNION {[1..n -> Keys \X Vals] : n \in 0..Cardinality(Keys)} :
        \A i \in DOMAIN d : \A j \in DOMAIN d : i # j => d[i][1] # d[j][1]}

InitConfig ==
    /\ client = "ready"
    /\ options = [k \in Keys |-> NotSet]
    /\ previous = [k \in Keys |-> NotSet]
    /\ request = <<>> /\ raises = <<>> /\ invoked = <<>> /\ outcome = <<>>
    /\ ds = Empty
    /\ pc = "off"
    /\ err = "none"
    /\ exp1 = Empty
    /\ Mx = 0 /\ My = 0 /\ Mp = 0
    /\ transects = <<>>
    /\ trans = <<>>
    /\ l = 0
    /\ exp1_xm = Empty /\ exp1_ym = Empty
    /\ xav = <<>> /\ yav = <<>> /\ sav = <<>> /\ Hav = <<>>
    /\ mav = <<>> /\ uav = <<>> /\ vav = <<>>
    /\ calls = <<>>
    /\ file = NoFile

ConfigGet ==
    /\ client = "ready"
    /\ \E key \in Keys : \E R \in SUBSET Accessors(get_methods, "_get") :
         LET r == get(key, R)
         IN  /\ request' = <<"get", key>>
             /\ raises' = <<R>>
             /\ invoked' = r.invoked
             /\ outcome' = r.outcome
    /\ previous' = options
    /\ client' = "returned"
    /\ UNCHANGED <<options, svars>>

ConfigSet ==
    /\ client = "ready"
    /\ \E key \in Keys : \E val \in Vals :
       \E R \in SUBSET Accessors(set_methods, "_set") :
         LET r == set(key, val, R, options)
         IN  /\ request' = <<"set", key, val>>
             /\ raises' = <<R>>
             /\ invoked' = r.invoked
             /\ outcome' = r.outcome
             /\ options' = r.options
    /\ previous' = options
    /\ client' = "returned"
    /\ UNCHANGED svars

ConfigSetFromDict ==
    /\ client = "ready"
    /\ \E d \in Dicts :
       \E Rs \in [1..Len(d) -> SUBSET Accessors(set_methods, "_set")] :
         LET r == set_from_dict(d, Rs, 1, options, <<>>)
         IN  /\ request' = <<"set_from_dict", d>>
             /\ raises' = Rs
             /\ invoked' = r.invoked
             /\ outcome' = r.outcome
             /\ options' = r.options
    /\ previous' = options
    /\ client' = "returned"
    /\ UNCHANGED svars

(* the caller goes on after a call has returned or its exception was caught *)
Continue ==
    /\ client = "returned"
    /\ client' = "ready"
    /\ previous' = options
    /\ request' = <<>> /\ raises' = <<>> /\ invoked' = <<>> /\ outcome' = <<>>
    /\ UNCHANGED <<options, svars>>

(* The order of the typed accessors, written out: flag, number, numbers, string *)
TypedGetters == <<"get_flag", "get_number", "get_numbers", "get_string">>
TypedSetters == <<"set_flag", "set_number", "set_numbers", "set_string">>

(* the position in order of the first accessor that does not raise, or
   Len(order) + 1 when all of them raise *)
FirstReturning(order, R) ==
    CHOOSE n \in 1..(Len(order) + 1) :
        /\ n <= Len(order) => order[n] \notin R
        /\ \A m \in 1..(n - 1) : order[m] \in R

(* the accessors one get or set calls, and how it ends *)
ExpectedCalls(order, generic, R) ==
    LET n == FirstReturning(order, R)
    IN  IF n <= Len(order) THEN SubSeq(order, 1, n) ELSE Append(order, generic)
ExpectedOutcome(order, generic, R) ==
    LET n == FirstReturning(order, R)
    IN  IF n <= Len(order) THEN [raised |-> FALSE, by |-> order[n]]
        ELSE [raised |-> generic \in R, by |-> generic]

(* the calls of one set(key, val): set itself, then the accessors *)
ExpectedSet(key, val, R) ==
    LET c == ExpectedCalls(TypedSetters, "_set", R)
    IN  <<<<"set", key, val>>>> \o [n \in 1..Len(c) |-> <<c[n], key, val>>]

(* the position in d of the first item whose set raises, or Len(d) + 1 *)
FirstRaising(d, Rs) ==
    CHOOSE n \in 1..(Len(d) + 1) :
        /\ n <= Len(d) => ExpectedOutcome(TypedSetters, "_set", Rs[n]).raised
        /\ \A m \in 1..(n - 1) : ~ExpectedOutcome(TypedSetters, "_set", Rs[m]).raised

RECURSIVE ExpectedSets(_, _, _, _)
ExpectedSets(d, Rs, n, last) ==
    IF n > last THEN <<>>
    ELSE ExpectedSet(d[n][1], d[n][2], Rs[n]) \o ExpectedSets(d, Rs, n + 1, last)

GetDispatch ==
    (client = "returned" /\ request[1] = "get") =>
        LET key == request[2]
            c == ExpectedCalls(TypedGetters, "_get", raises[1])
        IN  /\ invoked = <<<<"get", key>>>> \o [n \in 1..Len(c) |-> <<c[n], key>>]
            /\ outcome = ExpectedOutcome(TypedGetters, "_get", raises[1])
            /\ options = previous

SetDispatch ==
    (client = "returned" /\ request[1] = "set") =>
        LET key == request[2]
            val == request[3]
            o == ExpectedOutcome(TypedSetters, "_set", raises[1])
        IN  /\ invoked = ExpectedSet(key, val, raises[1])
            /\ outcome = o
            /\ options = IF o.raised THEN previous ELSE [previous EXCEPT ![key] = val]

SetFromDictStops ==
    (client = "returned" /\ request[1] = "set_from_dict") =>
        LET d == request[2]
            stop == FirstRaising(d, raises)
        IN  /\ invoked = ExpectedSets(d, raises, 1, Min(stop, Len(d)))
            /\ SelectSeq(invoked, LAMBDA c : c[1] = "set")
                 = [n \in 1..Min(stop, Len(d)) |-> <<"set", d[n][1], d[n][2]>>]
            /\ outcome = IF stop <= Len(d) THEN [raised |-> TRUE, by |-> "_set"]
                         ELSE [raised |-> FALSE, by |-> "set_from_dict"]
            /\ \A k \in Keys :
                 options[k] = IF \E n \in 1..(stop - 1) : d[n][1] = k
                              THEN d[CHOOSE n \in 1..(stop - 1) : d[n][1] = k][2]
                              ELSE previous[k]

(* C12: get and set call the typed accessors in the order flag, number,
   numbers, string; the call ends as the first of them that does not raise,
   nothing is called after it, and the exceptions before it are swallowed;
   when all four raise the generic _get/_set is called and its return or
   exception ends the call.  set_from_dict calls set once per item in
   iteration order and stops at the first item whose set raises; the items
   before it are set, the items from it on are as they were. *)
C12_OrderedDispatch == GetDispatch /\ SetDispatch /\ SetFromDictStops

(* set_from_dict of two items: the first is set by set_numbers after set_flag
   and set_number raised, the set of the second raises in all five setters *)
C12_Witness ==
    /\ client = "returned"
    /\ request = <<"set_from_dict", <<(<<"b", 2>>), (<<"a", 1>>)>> >>
    /\ previous = [k \in Keys |-> NotSet]
    /\ raises[1] = {"set_flag", "set_number"}
    /\ raises[2] = Accessors(TypedSetters, "_set")
    /\ Len(invoked) = 10
    /\ invoked[4] = <<"set_numbers", "b", 2>>
    /\ invoked[10] = <<"_set", "a", 1>>
    /\ outcome = [raised |-> TRUE, by |-> "_set"]
    /\ options["b"] = 2 /\ options["a"] = NotSet
Next ==
    \/ ReadSnapshot
    \/ ReadTimeSeries
    \/ DefineProfiles
    \/ Allocate
    \/ SampleTransect
    \/ CreateFile
    \/ Normalize
    \/ DeclareProfiles
    \/ WriteGlobals
    \/ WriteProfile
    \/ WriteAttributes
    \/ Close
    \/ WriteFailure

Spec == Init /\ [][Next]_vars

NextConfig ==
    \/ ConfigGet
    \/ ConfigSet
    \/ ConfigSetFromDict
    \/ Continue

SpecConfig == InitConfig /\ [][NextConfig]_vars
====
